---- MODULE Spec2Model ----
(***************************************************************************)
(* Virtual IOMMU topology: the ACPI VIOT table walk (drivers/acpi/viot.c), *)
(* the virtio-iommu built-in topology walk                                 *)
(* (drivers/iommu/virtio-iommu-topology.c), the topology registry and the  *)
(* endpoint resolver (drivers/iommu/virt-iommu.c).                         *)
(*                                                                         *)
(* Pointers are modelled as naturals: 0 is NULL, a positive number is the  *)
(* identity of a live object, a negative number is ERR_PTR(errno).         *)
(* Memory allocation (kzalloc) is taken to succeed.                        *)
(***************************************************************************)
EXTENDS Integers, Sequences, FiniteSets, TLC

(***************************************************************************)
(* Bounds of the model.                                                    *)
(***************************************************************************)
\* Largest node_count of a VIOT table.
MaxNodes == 3
\* Largest num_items of a virtio-iommu topology descriptor.
MaxItems == 3
\* Largest node_count and num_items when the whole system runs (Spec).
MaxBootNodes == 2
MaxBootItems == 1

(***************************************************************************)
(* Program constants.                                                      *)
(***************************************************************************)
VIRT_IOMMU_DEV_TYPE_PCI == 1
VIRT_IOMMU_DEV_TYPE_MMIO == 2

\* enum acpi_viot_node_type (include/linux/acpi_viot.h)
ACPI_VIOT_NODE_PCI_RANGE == 1
ACPI_VIOT_NODE_MMIO == 2
ACPI_VIOT_NODE_VIRTIO_IOMMU_PCI == 3
ACPI_VIOT_NODE_VIRTIO_IOMMU_MMIO == 4

\* include/uapi/linux/virtio_iommu.h
VIRTIO_IOMMU_TOPO_PCI_RANGE == 1
VIRTIO_IOMMU_TOPO_MMIO == 2

\* Structure sizes in bytes (sizeof in the code; the layouts are those of
\* include/linux/acpi_viot.h and include/uapi/linux/virtio_iommu.h).
SizeofViot == 48
SizeofNode == 4
SizeofPciRange == 16
SizeofMmio == 24
SizeofIommuPci == 16
SizeofIommuMmio == 16
SizeofTopoHeader == 4
SizeofTopoPciRange == 16
SizeofTopoMmio == 16

\* errno values
ENODEV == 19
EINVAL == 22
EOVERFLOW == 75
EPROBE_DEFER == 517
MAX_ERRNO == 4095

\* A u32 is kept as its two 16-bit halves [hi, lo]: its value is
\* hi * 2^16 + lo, and sums wrap at 2^32 as they do in C.
Half == 65536

U32Of(hi, lo) == [hi |-> hi, lo |-> lo]

\* u32 + int, for a non-negative int below 2^16
U32Add(a, d) ==
    [hi |-> (a.hi + ((a.lo + d) \div Half)) % Half, lo |-> (a.lo + d) % Half]

Max(a, b) == IF a >= b THEN a ELSE b

(***************************************************************************)
(* struct virt_iommu_dev_spec.  A zeroed selector is what kzalloc leaves.  *)
(***************************************************************************)
ZeroDevid == [type |-> 0, segment |-> 0, bdf_start |-> 0, bdf_end |-> 0, base |-> 0]

PciDevid(segment, bdf_start, bdf_end) ==
    [type |-> VIRT_IOMMU_DEV_TYPE_PCI, segment |-> segment,
     bdf_start |-> bdf_start, bdf_end |-> bdf_end, base |-> 0]

MmioDevid(base) ==
    [type |-> VIRT_IOMMU_DEV_TYPE_MMIO, segment |-> 0,
     bdf_start |-> 0, bdf_end |-> 0, base |-> base]

\* struct virt_iommu_spec after kzalloc
ZeroIommuSpec == [devid |-> ZeroDevid, dev |-> 0, fwnode |-> 0, ops |-> 0]

VARIABLES
    \* the heap of struct virt_iommu_spec objects; a pointer is an index
    specs,
    \* virt-iommu.c: the three lists, head first
    viommus, pci_endpoints, mmio_endpoints,
    \* viot.c: the table, the visited IOMMU nodes, the walk
    viot, iommus, vpc, vi, vnode, vret, vread,
    \* virtio-iommu-topology.c: the config region and the walk's locals
    cfg, tpc, ti, toffset, tendpoints, tspec, tret,
    \* virt-iommu.c: each device's iommu_fwspec, and the call of
    \* virt_dma_configure in progress
    fwspec, rpc, rdev, repid, rspec, rarg, rret,
    \* virt-iommu.c: the owner of viommus_lock ("" when it is free), and the
    \* call of virt_set_iommu_ops in progress
    viommus_lock, dpc, darg, dcalls

registry == <<viommus, pci_endpoints, mmio_endpoints>>
viotVars == <<viot, iommus, vpc, vi, vnode, vret, vread>>
topoVars == <<cfg, tpc, ti, toffset, tendpoints, tspec, tret>>
resolverVars == <<fwspec, rpc, rdev, repid, rspec, rarg, rret>>
lockVars == <<viommus_lock, dpc, darg, dcalls>>
vars == <<specs, viommus, pci_endpoints, mmio_endpoints,
          viot, iommus, vpc, vi, vnode, vret, vread,
          cfg, tpc, ti, toffset, tendpoints, tspec, tret,
          fwspec, rpc, rdev, repid, rspec, rarg, rret,
          viommus_lock, dpc, darg, dcalls>>

(***************************************************************************)
(* The system's devices.  A struct device pointer is an index into Devices.*)
(* A PCI device has a domain (segment) and a bus/device/function number, a *)
(* platform device may have a first memory resource; fwnode is             *)
(* dev->fwnode, 0 when the device has none.                                *)
(***************************************************************************)
PciDev(segment, bdf, fwnode) ==
    [bus |-> "pci", segment |-> segment, bdf |-> bdf,
     has_mem |-> FALSE, mem_start |-> 0, fwnode |-> fwnode]

PlatformDev(has_mem, mem_start, fwnode) ==
    [bus |-> "platform", segment |-> 0, bdf |-> 0,
     has_mem |-> has_mem, mem_start |-> mem_start, fwnode |-> fwnode]

Devices ==
    << PciDev(0, 0, 11), PciDev(0, 1, 0), PciDev(0, 2, 13), PciDev(1, 1, 14),
       PlatformDev(TRUE, 4096, 15), PlatformDev(TRUE, 8192, 16),
       PlatformDev(FALSE, 0, 17) >>

Dev == 1..Len(Devices)

\* the devices a virtio-iommu driver binds to: they call virt_set_iommu_ops
IommuDevs == {1, 6}

\* the devices whose probe the walks of the state space follow; what the
\* resolver computes for the others is stated over Dev
Probed == {1, 2, 5}

dev_is_pci(dev) == Devices[dev].bus = "pci"
dev_is_platform(dev) == Devices[dev].bus = "platform"
pci_dev_id(dev) == Devices[dev].bdf
pci_domain_nr(dev) == Devices[dev].segment

\* the iommu_ops pointers a driver may pass; 0 is NULL
Ops == {0, 1}

(***************************************************************************)
(* The registry (virt-iommu.c).  list_add inserts at the head.             *)
(***************************************************************************)
\* The registry as a value: the three lists and the heap they point into.
Reg == [specs |-> specs, viommus |-> viommus,
        pci_endpoints |-> pci_endpoints, mmio_endpoints |-> mmio_endpoints]

\* virt_iommu_add_endpoint_spec with every spec put on pci_endpoints
AddEndpointSpecOneList(reg, spec) ==
    [reg EXCEPT !.pci_endpoints = <<spec>> \o @]

\* virt_iommu_add_endpoint_spec with list_add_tail
AddEndpointSpecTail(reg, spec) ==
    IF spec.devid.type = VIRT_IOMMU_DEV_TYPE_MMIO
    THEN [reg EXCEPT !.mmio_endpoints = @ \o <<spec>>]
    ELSE [reg EXCEPT !.pci_endpoints = @ \o <<spec>>]

virt_iommu_add_endpoint_spec(reg, spec) ==
    IF spec.devid.type = VIRT_IOMMU_DEV_TYPE_MMIO
    THEN [reg EXCEPT !.mmio_endpoints = <<spec>> \o @]
    ELSE [reg EXCEPT !.pci_endpoints = <<spec>> \o @]

\* a virt_iommu_add_iommu_spec that puts the spec on the list twice
AddIommuSpecTwice(reg, spec) ==
    [reg EXCEPT !.viommus = <<spec, spec>> \o @]

\* a virt_iommu_add_iommu_spec that leaves viommus as it is
AddIommuSpecNowhere(reg, spec) == reg

virt_iommu_add_iommu_spec(reg, spec) ==
    [reg EXCEPT !.viommus = <<spec>> \o @]

(***************************************************************************)
(* The VIOT table (viot.c).  The table is its header fields and the nodes  *)
(* that follow each other in memory from node_offset, each as long as its  *)
(* declared length.  header.length is a field like any other: the nodes    *)
(* past it are the memory that follows the table.                          *)
(***************************************************************************)
ZeroNode == [type |-> 0, length |-> 0, segment |-> 0, bdf_start |-> 0,
             bdf_end |-> 0, base |-> 0, endpoint |-> U32Of(0, 0), output_node |-> 0]

RECURSIVE NodeStart(_, _)
\* byte offset of the k-th node of table t
NodeStart(t, k) ==
    IF k = 1 THEN t.node_offset
    ELSE NodeStart(t, k - 1) + t.nodes[k - 1].length

\* ACPI_ADD_PTR(struct acpi_viot_node, viot, off), dereferenced
NodeAt(t, off) ==
    LET ks == {k \in 1..Len(t.nodes) : NodeStart(t, k) = off}
    IN IF ks = {} THEN ZeroNode
       ELSE t.nodes[CHOOSE k \in ks : \A j \in ks : k <= j]

\* the state the walk works on: the registry, the visited list, the bytes read
ViotState == [reg |-> Reg, iommus |-> iommus, read |-> vread]

\* viot_check_bounds without its test of node->length
CheckBoundsStartOnly(t, off) ==
    IF off < t.node_offset \/ off >= t.header_length THEN -EOVERFLOW ELSE 0

viot_check_bounds(t, off) ==
    IF off < t.node_offset \/ off >= t.header_length THEN -EOVERFLOW
    ELSE IF NodeAt(t, off).length < SizeofNode THEN -EINVAL
    ELSE 0

\* the highest byte (exclusive) viot_check_bounds reads of the node at off
CheckBoundsRead(t, off) ==
    IF off < t.node_offset \/ off >= t.header_length THEN 0
    ELSE off + SizeofNode

\* a walk of the visited list that finds nothing
SeenIommuNever(list, offset) == 0

\* list_for_each_entry(viommu, &iommus, list): the index of the first entry
\* with this offset, 0 when there is none
SeenIommu(list, offset) ==
    LET seen == {k \in 1..Len(list) : list[k].offset = offset}
    IN IF seen = {} THEN 0 ELSE CHOOSE k \in seen : \A j \in seen : k <= j

viot_get_iommu(t, st, offset) ==
    LET node == NodeAt(t, offset)
        first == SeenIommu(st.iommus, offset)
        st1 == [st EXCEPT !.read = Max(@, CheckBoundsRead(t, offset))]
        new == Len(st.reg.specs) + 1
        spec(devid, size) ==
            [st |-> [reg |-> virt_iommu_add_iommu_spec(
                                [st.reg EXCEPT !.specs = Append(@,
                                    [ZeroIommuSpec EXCEPT !.devid = devid])],
                                new),
                     iommus |-> <<[offset |-> offset, spec |-> new]>> \o st.iommus,
                     read |-> Max(st1.read, offset + size)],
             spec |-> new]
    IN IF first # 0 THEN [st |-> st, spec |-> st.iommus[first].spec]
       ELSE IF viot_check_bounds(t, offset) # 0 THEN [st |-> st1, spec |-> 0]
       ELSE IF node.type = ACPI_VIOT_NODE_VIRTIO_IOMMU_PCI
            THEN IF node.length < SizeofIommuPci THEN [st |-> st1, spec |-> 0]
                 ELSE spec(PciDevid(node.segment, node.bdf_start, node.bdf_start),
                           SizeofIommuPci)
       ELSE IF node.type = ACPI_VIOT_NODE_VIRTIO_IOMMU_MMIO
            THEN IF node.length < SizeofIommuMmio THEN [st |-> st1, spec |-> 0]
                 ELSE spec(MmioDevid(node.base), SizeofIommuMmio)
       ELSE [st |-> st1, spec |-> 0]

\* a test of spec->viommu that lets every pointer through
NoIommuNever(viommu) == FALSE

\* "if (!spec->viommu)" in viot_parse_node
NoIommu(viommu) == viommu = 0

viot_parse_node(t, st, off) ==
    LET node == NodeAt(t, off)
        st1 == [st EXCEPT !.read = Max(@, CheckBoundsRead(t, off))]
        finish(devid, endpoint_id, size) ==
            LET st2 == [st1 EXCEPT !.read = Max(@, off + size)]
                got == viot_get_iommu(t, st2, node.output_node)
            IN IF NoIommu(got.spec) THEN [st |-> got.st, ret |-> -ENODEV]
               ELSE [st |-> [got.st EXCEPT !.reg = virt_iommu_add_endpoint_spec(@,
                                [devid |-> devid, endpoint_id |-> endpoint_id,
                                 viommu |-> got.spec])],
                     ret |-> 0]
    IN IF viot_check_bounds(t, off) # 0 THEN [st |-> st1, ret |-> -EINVAL]
       ELSE IF node.type = ACPI_VIOT_NODE_PCI_RANGE
            THEN IF node.length < SizeofPciRange THEN [st |-> st1, ret |-> -EINVAL]
                 ELSE finish(PciDevid(node.segment, node.bdf_start, node.bdf_end),
                             node.endpoint, SizeofPciRange)
       ELSE IF node.type = ACPI_VIOT_NODE_MMIO
            THEN IF node.length < SizeofMmio THEN [st |-> st1, ret |-> -EINVAL]
                 ELSE finish(MmioDevid(node.base), node.endpoint, SizeofMmio)
       ELSE [st |-> st1, ret |-> 0]

\* a cursor that moves on by the sub-header only
NextNodeByHeader(t, off) == off + SizeofNode

\* node = ACPI_ADD_PTR(struct acpi_viot_node, node, node->length)
NextNode(t, off) == off + NodeAt(t, off).length

\* viot_parse_nodes, up to the loop
viot_parse_nodes ==
    /\ vpc = "init"
    /\ IF viot.node_offset < SizeofViot
       THEN vpc' = "done" /\ UNCHANGED vnode
       ELSE vpc' = "loop" /\ vnode' = viot.node_offset
    /\ UNCHANGED <<specs, registry, viot, iommus, vi, vret, vread>>
    /\ UNCHANGED <<topoVars, resolverVars>>
    /\ UNCHANGED lockVars

\* one iteration of the loop of viot_parse_nodes
viot_parse_nodes_loop ==
    /\ vpc = "loop"
    /\ IF vi < viot.node_count
       THEN LET r == viot_parse_node(viot, ViotState, vnode)
            IN /\ specs' = r.st.reg.specs
               /\ viommus' = r.st.reg.viommus
               /\ pci_endpoints' = r.st.reg.pci_endpoints
               /\ mmio_endpoints' = r.st.reg.mmio_endpoints
               /\ iommus' = r.st.iommus
               /\ vread' = r.st.read
               /\ vret' = r.ret
               /\ IF r.ret # 0
                  THEN vpc' = "done" /\ UNCHANGED <<vi, vnode>>
                  ELSE /\ vnode' = NextNode(viot, vnode)
                       /\ vi' = vi + 1
                       /\ vpc' = "loop"
       ELSE /\ vpc' = "done"
            /\ UNCHANGED <<specs, registry, iommus, vi, vnode, vret, vread>>
    /\ UNCHANGED <<viot, topoVars, resolverVars>>
    /\ UNCHANGED lockVars

(***************************************************************************)
(* Tables.                                                                 *)
(***************************************************************************)
\* where an endpoint node may point: before the node array, its first node,
\* the node one PCI range further
OutputNodes == {0, SizeofViot, SizeofViot + SizeofPciRange}

PciRangeNode(length, segment, bdf_start, bdf_end, endpoint, output_node) ==
    [ZeroNode EXCEPT !.type = ACPI_VIOT_NODE_PCI_RANGE, !.length = length,
        !.segment = segment, !.bdf_start = bdf_start, !.bdf_end = bdf_end,
        !.endpoint = endpoint, !.output_node = output_node]

MmioNode(length, base, endpoint, output_node) ==
    [ZeroNode EXCEPT !.type = ACPI_VIOT_NODE_MMIO, !.length = length,
        !.base = base, !.endpoint = endpoint, !.output_node = output_node]

IommuPciNode(length, segment, bdf) ==
    [ZeroNode EXCEPT !.type = ACPI_VIOT_NODE_VIRTIO_IOMMU_PCI, !.length = length,
        !.segment = segment, !.bdf_start = bdf]

IommuMmioNode(length, base) ==
    [ZeroNode EXCEPT !.type = ACPI_VIOT_NODE_VIRTIO_IOMMU_MMIO, !.length = length,
        !.base = base]

\* a node of a type this parser does not know
OtherNode(length) == [ZeroNode EXCEPT !.type = 5, !.length = length]

\* The nodes of the tables of SpecViot: every type, with a length below the
\* sub-header (its type is then never read), a length below its type's
\* structure, and a full length.
ViotNodes ==
    {OtherNode(0), OtherNode(SizeofNode), OtherNode(SizeofPciRange)}
    \cup {PciRangeNode(SizeofNode, 0, 0, 0, U32Of(0, 0), 0)}
    \cup {PciRangeNode(SizeofPciRange, 0, 1, 2, U32Of(0, 100), o) : o \in OutputNodes}
    \cup {MmioNode(SizeofNode, 0, U32Of(0, 0), 0), MmioNode(SizeofMmio, 4096, U32Of(0, 7), SizeofViot)}
    \cup {IommuPciNode(SizeofNode, 0, 0), IommuPciNode(SizeofIommuPci, 0, 0)}
    \cup {IommuMmioNode(SizeofIommuMmio, 8192)}

SeqsUpTo(S, n) == UNION {[1..k -> S] : k \in 0..n}

\* header.length: cuts the first node's sub-header, ends after one PCI range,
\* or leaves room for every node
TableLengths == {SizeofViot + 2, SizeofViot + SizeofPciRange, 256}

NodeOffsets == {SizeofViot - SizeofNode, SizeofViot}

\* an output_node either is the start of a node or lies outside the node array
OutputsAligned(t) ==
    \A k \in 1..Len(t.nodes) :
        LET n == t.nodes[k]
            isEp == \/ n.type = ACPI_VIOT_NODE_PCI_RANGE /\ n.length >= SizeofPciRange
                    \/ n.type = ACPI_VIOT_NODE_MMIO /\ n.length >= SizeofMmio
        IN isEp => \/ n.output_node < t.node_offset
                   \/ n.output_node >= t.header_length
                   \/ \E j \in 1..Len(t.nodes) : NodeStart(t, j) = n.output_node

Tables(nodeSet, lengths, offsets, n) ==
    {t \in [header_length : lengths, node_offset : offsets,
            node_count : 0..n, nodes : SeqsUpTo(nodeSet, n)] :
        /\ t.node_count = Len(t.nodes)
        /\ OutputsAligned(t)}

(***************************************************************************)
(* The built-in topology of a virtio-iommu (virtio-iommu-topology.c).      *)
(* The device config region is its topology descriptor, the items that     *)
(* follow each other from topo_config.offset, each as long as its declared *)
(* length, and the length of the mapped region.                            *)
(***************************************************************************)
ZeroItem == [type |-> 0, length |-> 0, segment |-> 0, bdf_start |-> 0,
             bdf_end |-> 0, endpoint |-> U32Of(0, 0), address |-> 0]

RECURSIVE ItemStart(_, _)
ItemStart(c, k) ==
    IF k = 1 THEN c.offset
    ELSE ItemStart(c, k - 1) + c.items[k - 1].length

\* (void __iomem *)cfg + offset, read through ioread*
ItemAt(c, off) ==
    LET ks == {k \in 1..Len(c.items) : ItemStart(c, k) = off}
    IN IF ks = {} THEN ZeroItem
       ELSE c.items[CHOOSE k \in ks : \A j \in ks : k <= j]

IS_ERR(ptr) == ptr < 0 /\ ptr >= -MAX_ERRNO
IS_ERR_OR_NULL(ptr) == ptr = 0 \/ IS_ERR(ptr)

\* a viommu_parse_node that returns NULL for every item
ParseNodeNull(item, len) == [ptr |-> 0]

\* ptr is the pointer returned: ERR_PTR(-EINVAL) or the new endpoint spec
viommu_parse_node(item, len) ==
    IF item.type = VIRTIO_IOMMU_TOPO_PCI_RANGE
    THEN IF len < SizeofTopoPciRange THEN [ptr |-> -EINVAL]
         ELSE [ptr |-> 1,
               devid |-> PciDevid(item.segment, item.bdf_start, item.bdf_end),
               endpoint_id |-> item.endpoint]
    ELSE IF item.type = VIRTIO_IOMMU_TOPO_MMIO
    THEN IF len < SizeofTopoMmio THEN [ptr |-> -EINVAL]
         ELSE [ptr |-> 1, devid |-> MmioDevid(item.address),
               endpoint_id |-> item.endpoint]
    ELSE [ptr |-> -EINVAL]

\* viommu_parse_topology, up to the loop
viommu_parse_topology ==
    /\ tpc = "init"
    /\ IF cfg.offset = 0 \/ cfg.num_items = 0
       THEN /\ tpc' = "done"
            /\ tret' = 0
            /\ UNCHANGED <<specs, toffset, tspec>>
       ELSE /\ specs' = Append(specs, [ZeroIommuSpec EXCEPT !.dev = cfg.dev])
            /\ tspec' = Len(specs) + 1
            /\ toffset' = cfg.offset
            /\ tpc' = "loop"
            /\ UNCHANGED tret
    /\ UNCHANGED <<registry, cfg, ti, tendpoints, viotVars, resolverVars>>
    /\ UNCHANGED lockVars

\* a test against max_len that lets everything through
TopoOverflowNever(offset, size, max_len) == FALSE

\* "offset + sizeof(*cur) > max_len", "offset + len > max_len"
TopoOverflow(offset, size, max_len) == offset + size > max_len

\* the bytes of an item viommu_parse_node reads through ioread*: hdr.type,
\* and the payload of a known type that is long enough
ParseNodeRead(item, len) ==
    IF item.type = VIRTIO_IOMMU_TOPO_PCI_RANGE /\ len >= SizeofTopoPciRange
    THEN SizeofTopoPciRange
    ELSE IF item.type = VIRTIO_IOMMU_TOPO_MMIO /\ len >= SizeofTopoMmio
    THEN SizeofTopoMmio
    ELSE 1

\* what one iteration of the loop does: ret is 0 when the walk goes on, read
\* is the end (exclusive) of the bytes of the region it read
TopologyItem(c, offset, spec) ==
    LET len == ItemAt(c, offset).length
        ep == viommu_parse_node(ItemAt(c, offset), len)
        read == Max(offset + SizeofTopoHeader,
                    offset + ParseNodeRead(ItemAt(c, offset), len))
    IN IF TopoOverflow(offset, SizeofTopoHeader, c.max_len)
       THEN [ret |-> -EOVERFLOW, read |-> 0]
       ELSE IF TopoOverflow(offset, len, c.max_len)
       THEN [ret |-> -EOVERFLOW, read |-> offset + SizeofTopoHeader]
       ELSE IF ep.ptr = 0 THEN [ret |-> 0, add |-> <<>>, len |-> len, read |-> read]
       ELSE IF IS_ERR(ep.ptr) THEN [ret |-> ep.ptr, read |-> read]
       ELSE [ret |-> 0, len |-> len, read |-> read,
             add |-> <<[devid |-> ep.devid, endpoint_id |-> ep.endpoint_id,
                        viommu |-> spec]>>]

\* one iteration of the loop of viommu_parse_topology, or its err_free exit
viommu_parse_topology_loop ==
    /\ tpc = "loop"
    /\ IF ti < cfg.num_items
       THEN LET r == TopologyItem(cfg, toffset, tspec)
            IN IF r.ret # 0
               THEN \* err_free: kfree of every endpoint and of viommu_spec,
                    \* the object allocated last
                    /\ tendpoints' = <<>>
                    /\ specs' = SubSeq(specs, 1, Len(specs) - 1)
                    /\ tret' = r.ret
                    /\ tpc' = "done"
                    /\ UNCHANGED <<ti, toffset>>
               ELSE /\ tendpoints' = r.add \o tendpoints
                    /\ ti' = ti + 1
                    /\ toffset' = toffset + r.len
                    /\ UNCHANGED <<specs, tret, tpc>>
       ELSE /\ tpc' = "publish"
            /\ UNCHANGED <<specs, ti, toffset, tendpoints, tret>>
    /\ UNCHANGED <<registry, cfg, tspec, viotVars, resolverVars>>
    /\ UNCHANGED lockVars

\* list_for_each_entry_safe(ep, next, &endpoints, list): one endpoint
viommu_publish_endpoint ==
    /\ tpc = "publish"
    /\ tendpoints # <<>>
    /\ LET reg == virt_iommu_add_endpoint_spec(Reg, Head(tendpoints))
       IN /\ pci_endpoints' = reg.pci_endpoints
          /\ mmio_endpoints' = reg.mmio_endpoints
    /\ tendpoints' = Tail(tendpoints)
    /\ UNCHANGED <<specs, viommus, cfg, tpc, ti, toffset, tspec, tret,
                   viotVars, resolverVars>>
    /\ UNCHANGED lockVars

\* virt_iommu_add_iommu_spec(viommu_spec); return 0
viommu_publish_iommu ==
    /\ tpc = "publish"
    /\ tendpoints = <<>>
    /\ viommus' = virt_iommu_add_iommu_spec(Reg, tspec).viommus
    /\ tret' = 0
    /\ tpc' = "done"
    /\ UNCHANGED <<specs, pci_endpoints, mmio_endpoints, cfg, ti, toffset,
                   tendpoints, tspec, viotVars, resolverVars>>
    /\ UNCHANGED lockVars

TopoPciRange(length, segment, bdf_start, bdf_end, endpoint) ==
    [ZeroItem EXCEPT !.type = VIRTIO_IOMMU_TOPO_PCI_RANGE, !.length = length,
        !.segment = segment, !.bdf_start = bdf_start, !.bdf_end = bdf_end,
        !.endpoint = endpoint]

TopoMmio(length, address, endpoint) ==
    [ZeroItem EXCEPT !.type = VIRTIO_IOMMU_TOPO_MMIO, !.length = length,
        !.address = address, !.endpoint = endpoint]

\* an item of a type this parser does not know
TopoOther(length) == [ZeroItem EXCEPT !.type = 3, !.length = length]

\* The items of the regions of SpecTopo.
TopoItems ==
    {TopoOther(0), TopoOther(SizeofTopoHeader), TopoOther(SizeofTopoPciRange)}
    \cup {TopoPciRange(SizeofTopoHeader, 0, 0, 0, U32Of(0, 0)),
          TopoPciRange(SizeofTopoPciRange, 0, 1, 2, U32Of(0, 50))}
    \cup {TopoMmio(SizeofTopoHeader, 0, U32Of(0, 0)),
          TopoMmio(SizeofTopoMmio, 4096, U32Of(0, 9))}

\* topo_config.offset: none, or behind the fixed part of the config
TopoOffsets == {0, 64}

\* the length of the mapped region, from topo_config.offset on: it cuts the
\* first item's sub-header, cuts its payload, ends after one item, or leaves
\* room for every item
TopoRoom == {2, 2 * SizeofTopoHeader, SizeofTopoPciRange, 2 * SizeofTopoPciRange, 192}

Regions(itemSet, devs, offsets, room, n) ==
    {c \in [dev : devs, offset : offsets, num_items : 0..n,
            items : SeqsUpTo(itemSet, n),
            max_len : {o + r : o \in offsets, r \in room}] :
        /\ c.num_items = Len(c.items)
        /\ c.max_len - c.offset \in room}

(***************************************************************************)
(* The resolver (virt-iommu.c).                                            *)
(***************************************************************************)
viommu_device_match(dev, spec) ==
    IF spec.type = VIRT_IOMMU_DEV_TYPE_PCI /\ dev_is_pci(dev)
    THEN /\ pci_domain_nr(dev) = spec.segment
         /\ pci_dev_id(dev) >= spec.bdf_start
         /\ pci_dev_id(dev) <= spec.bdf_end
    ELSE IF spec.type = VIRT_IOMMU_DEV_TYPE_MMIO /\ dev_is_platform(dev)
    THEN IF ~Devices[dev].has_mem THEN FALSE
         ELSE Devices[dev].mem_start = spec.base
    ELSE FALSE

\* index of the first entry of list that matches dev, 0 when none does
FirstMatch(list, dev) ==
    LET ks == {k \in 1..Len(list) : viommu_device_match(dev, list[k].devid)}
    IN IF ks = {} THEN 0 ELSE CHOOSE k \in ks : \A j \in ks : k <= j

\* the endpoint list virt_iommu_setup walks for dev
EndpointList(reg, dev) ==
    IF dev_is_pci(dev) THEN reg.pci_endpoints
    ELSE IF dev_is_platform(dev) THEN reg.mmio_endpoints
    ELSE <<>>

\* an epid that is the spec's endpoint_id whatever the device
EndpointIdBase(dev, ep) == ep.endpoint_id

\* epid of dev under the endpoint spec ep, in u32 arithmetic
EndpointId(dev, ep) ==
    IF dev_is_pci(dev)
    THEN U32Add(ep.endpoint_id, pci_dev_id(dev) - ep.devid.bdf_start)
    ELSE ep.endpoint_id

\* virt_iommu_setup under viommus_lock: viommu_spec (0 when nothing
\* matches) and epid (left as it was when nothing matches)
LookupEndpoint(reg, dev) ==
    LET list == EndpointList(reg, dev)
        k == FirstMatch(list, dev)
    IN IF k = 0 THEN [viommu_spec |-> 0, epid |-> U32Of(0, 0)]
       ELSE [viommu_spec |-> list[k].viommu, epid |-> EndpointId(dev, list[k])]

\* a self-exclusion that tests viommu_spec->dev only
IsOwnIommuByDev(dev, viommu_spec) == dev = viommu_spec.dev

\* "We're not translating ourselves."
IsOwnIommu(dev, viommu_spec) ==
    viommu_device_match(dev, viommu_spec.devid) \/ dev = viommu_spec.dev

NoFwspec == [present |-> FALSE, ops |-> 0, fwnode |-> 0, ids |-> <<>>]

\* a test of the fwspec that finds no device translated
AlreadyTranslatedNever(fw) == FALSE

\* "Already translated?"
AlreadyTranslated(fw) == fw.present /\ fw.ops # 0

\* iommu_fwspec_init (drivers/iommu/iommu.c)
iommu_fwspec_init(fw, fwnode, ops) ==
    IF fw.present
    THEN [ret |-> IF ops = fw.ops THEN 0 ELSE -EINVAL, fw |-> fw]
    ELSE [ret |-> 0,
          fw |-> [present |-> TRUE, ops |-> ops, fwnode |-> fwnode, ids |-> <<>>]]

\* iommu_fwspec_add_ids(dev, &epid, 1)
iommu_fwspec_add_ids(fw, epid) == [fw EXCEPT !.ids = Append(@, epid)]

\* a virt_dma_configure that returns every error of virt_iommu_setup
DmaConfigureReturnRaw(iommu_ops) ==
    IF IS_ERR_OR_NULL(iommu_ops) THEN iommu_ops ELSE 0

\* virt_dma_configure, from the pointer virt_iommu_setup returned
DmaConfigureReturn(iommu_ops) ==
    IF IS_ERR_OR_NULL(iommu_ops)
    THEN IF iommu_ops = -EPROBE_DEFER \/ iommu_ops = 0 THEN iommu_ops ELSE 0
    ELSE 0

\* the call returns: what virt_iommu_setup returned, what virt_dma_configure did
Returned(dev, iommu_ops, epid) ==
    [dev |-> dev, setup |-> iommu_ops, ret |-> DmaConfigureReturn(iommu_ops),
     epid |-> epid]

NoCall == [dev |-> 0, setup |-> 0, ret |-> 0, epid |-> U32Of(0, 0)]

\* virt_iommu_setup(dev) run from its first line to its return with no other
\* thread in between, on the registry reg and dev's fwspec fw: the pointer
\* returned, the epid computed and the fwspec left
virt_iommu_setup(reg, fw, dev) ==
    LET m == LookupEndpoint(reg, dev)
        sp == reg.specs[m.viommu_spec]
        r == iommu_fwspec_init(fw, sp.fwnode, sp.ops)
        out(ops, fw2) == [ops |-> ops, epid |-> m.epid, fw |-> fw2]
    IN IF AlreadyTranslated(fw) \/ m.viommu_spec = 0 THEN out(0, fw)
       ELSE IF IsOwnIommu(dev, sp) THEN out(0, fw)
       ELSE IF sp.ops = 0 THEN out(-EPROBE_DEFER, fw)
       ELSE IF r.ret # 0 THEN out(r.ret, fw)
       ELSE out(sp.ops, iommu_fwspec_add_ids(r.fw, m.epid))

\* virt_dma_configure(dev) up to mutex_unlock in virt_iommu_setup
virt_dma_configure ==
    /\ rpc = "idle"
    /\ \E dev \in Probed :
        LET m == LookupEndpoint(Reg, dev)
        IN /\ rdev' = dev
           /\ IF AlreadyTranslated(fwspec[dev]) \/ m.viommu_spec = 0
              THEN /\ rret' = Returned(dev, 0, U32Of(0, 0))
                   /\ UNCHANGED <<rpc, repid, rspec>>
              ELSE /\ rpc' = "matched"
                   /\ repid' = m.epid
                   /\ rspec' = m.viommu_spec
                   /\ rret' = NoCall
    /\ UNCHANGED <<specs, registry, fwspec, rarg, viotVars, topoVars>>
    /\ UNCHANGED lockVars

\* virt_iommu_setup: the self-exclusion test
virt_iommu_setup_self ==
    /\ rpc = "matched"
    /\ IF IsOwnIommu(rdev, specs[rspec])
       THEN rpc' = "idle" /\ rret' = Returned(rdev, 0, repid)
       ELSE rpc' = "acs" /\ UNCHANGED rret
    /\ UNCHANGED <<specs, registry, fwspec, rdev, repid, rspec, rarg,
                   viotVars, topoVars>>
    /\ UNCHANGED lockVars

\* virt_iommu_setup: pci_request_acs and the test of viommu_spec->ops
virt_iommu_setup_ops ==
    /\ rpc = "acs"
    /\ IF specs[rspec].ops = 0
       THEN rpc' = "idle" /\ rret' = Returned(rdev, -EPROBE_DEFER, repid)
       ELSE rpc' = "args" /\ UNCHANGED rret
    /\ UNCHANGED <<specs, registry, fwspec, rdev, repid, rspec, rarg,
                   viotVars, topoVars>>
    /\ UNCHANGED lockVars

\* virt_iommu_setup: the first argument of iommu_fwspec_init that is read
\* (C leaves the order of the two reads open)
virt_iommu_setup_arg ==
    /\ rpc = "args"
    /\ \E first \in {"fwnode", "ops"} :
        rarg' = [first |-> first, val |-> specs[rspec][first]]
    /\ rpc' = "init"
    /\ UNCHANGED <<specs, registry, fwspec, rdev, repid, rspec, rret,
                   viotVars, topoVars>>
    /\ UNCHANGED lockVars

\* bound on the ids of one fwspec
MaxIds == 2

\* virt_iommu_setup: the other argument, iommu_fwspec_init and
\* iommu_fwspec_add_ids
virt_iommu_setup_init ==
    /\ rpc = "init"
    /\ Len(fwspec[rdev].ids) < MaxIds
    /\ LET fwnode == IF rarg.first = "fwnode" THEN rarg.val ELSE specs[rspec].fwnode
           ops == IF rarg.first = "ops" THEN rarg.val ELSE specs[rspec].ops
           r == iommu_fwspec_init(fwspec[rdev], fwnode, ops)
       IN IF r.ret # 0
          THEN /\ rpc' = "idle"
               /\ rret' = Returned(rdev, r.ret, repid)
               /\ UNCHANGED fwspec
          ELSE /\ fwspec' = [fwspec EXCEPT ![rdev] = iommu_fwspec_add_ids(r.fw, repid)]
               /\ rpc' = "ret"
               /\ UNCHANGED rret
    /\ UNCHANGED <<specs, registry, rdev, repid, rspec, rarg, viotVars, topoVars>>
    /\ UNCHANGED lockVars

\* virt_iommu_setup: return viommu_spec->ops, and the rest of
\* virt_dma_configure
virt_iommu_setup_return ==
    /\ rpc = "ret"
    /\ rpc' = "idle"
    /\ rret' = Returned(rdev, specs[rspec].ops, repid)
    /\ UNCHANGED <<specs, registry, fwspec, rdev, repid, rspec, rarg,
                   viotVars, topoVars>>
    /\ UNCHANGED lockVars

\* a walk of viommus that stops at its first entry whatever the device
SetOpsTargetHead(reg, dev) == IF reg.viommus = <<>> THEN 0 ELSE 1

\* a walk of viommus that stops at the last entry for dev
SetOpsTargetLast(reg, dev) ==
    LET hit(k) == LET sp == reg.specs[reg.viommus[k]]
                  IN \/ sp.dev = 0 /\ viommu_device_match(dev, sp.devid)
                     \/ sp.dev = dev
        ks == {k \in 1..Len(reg.viommus) : hit(k)}
    IN IF ks = {} THEN 0 ELSE CHOOSE k \in ks : \A j \in ks : k >= j

\* index in viommus of the spec virt_set_iommu_ops stops at, 0 when none
SetOpsTarget(reg, dev) ==
    LET hit(k) == LET sp == reg.specs[reg.viommus[k]]
                  IN \/ sp.dev = 0 /\ viommu_device_match(dev, sp.devid)
                     \/ sp.dev = dev
        ks == {k \in 1..Len(reg.viommus) : hit(k)}
    IN IF ks = {} THEN 0 ELSE CHOOSE k \in ks : \A j \in ks : k <= j

\* a walk of viommus without its break: every spec for dev is written
SetIommuOpsNoBreak(reg, dev, ops) ==
    LET hit(s) == /\ \E k \in 1..Len(reg.viommus) : reg.viommus[k] = s
                  /\ \/ reg.specs[s].dev = 0
                        /\ viommu_device_match(dev, reg.specs[s].devid)
                     \/ reg.specs[s].dev = dev
    IN [reg EXCEPT !.specs =
          [s \in 1..Len(reg.specs) |->
              IF hit(s)
              THEN [reg.specs[s] EXCEPT !.dev = dev, !.ops = ops,
                       !.fwnode = IF ops # 0 THEN Devices[dev].fwnode ELSE 0]
              ELSE reg.specs[s]]]

\* virt_set_iommu_ops(dev, ops), on the registry as a value
SetIommuOps(reg, dev, ops) ==
    LET k == SetOpsTarget(reg, dev)
    IN IF k = 0 THEN reg
       ELSE [reg EXCEPT !.specs[reg.viommus[k]] =
                [@ EXCEPT !.dev = dev, !.ops = ops,
                          !.fwnode = IF ops # 0 THEN Devices[dev].fwnode ELSE 0]]

virt_set_iommu_ops ==
    /\ \E dev \in IommuDevs, ops \in Ops :
        specs' = SetIommuOps(Reg, dev, ops).specs
    /\ UNCHANGED <<registry, viotVars, topoVars, resolverVars>>
    /\ UNCHANGED lockVars

(***************************************************************************)
(* The same entry points with viommus_lock shown: a mutex_lock that waits  *)
(* for the lock, the critical section with its mutex_unlock, and what      *)
(* follows the unlock (the actions virt_iommu_setup_self to                *)
(* virt_iommu_setup_return above).                                         *)
(***************************************************************************)
\* a mutex_unlock that leaves the lock with its owner
MutexUnlockLeak(owner) == owner

\* mutex_unlock(&viommus_lock): the owner of the lock afterwards
mutex_unlock(owner) == ""

\* bound on the calls of virt_set_iommu_ops the drivers make
MaxOpsCalls == 2

\* virt_dma_configure(dev): virt_iommu_setup up to mutex_lock
virt_iommu_setup_enter ==
    /\ rpc = "idle"
    /\ \E dev \in Probed :
        /\ rdev' = dev
        /\ IF AlreadyTranslated(fwspec[dev])
           THEN rret' = Returned(dev, 0, U32Of(0, 0)) /\ UNCHANGED rpc
           ELSE rpc' = "lock" /\ rret' = NoCall
    /\ UNCHANGED <<specs, registry, fwspec, repid, rspec, rarg, viotVars, topoVars>>
    /\ UNCHANGED lockVars

\* virt_iommu_setup: mutex_lock(&viommus_lock)
virt_iommu_setup_lock ==
    /\ rpc = "lock"
    /\ viommus_lock = ""
    /\ viommus_lock' = "resolver"
    /\ rpc' = "locked"
    /\ UNCHANGED <<specs, registry, fwspec, rdev, repid, rspec, rarg, rret,
                   viotVars, topoVars, dpc, darg, dcalls>>

\* virt_iommu_setup: the walk of the endpoint list, mutex_unlock and the
\* test of viommu_spec
virt_iommu_setup_lookup ==
    /\ rpc = "locked"
    /\ LET m == LookupEndpoint(Reg, rdev)
       IN IF m.viommu_spec = 0
          THEN /\ rpc' = "idle"
               /\ rret' = Returned(rdev, 0, U32Of(0, 0))
               /\ UNCHANGED <<repid, rspec>>
          ELSE /\ rpc' = "matched"
               /\ repid' = m.epid
               /\ rspec' = m.viommu_spec
               /\ UNCHANGED rret
    /\ viommus_lock' = mutex_unlock(viommus_lock)
    /\ UNCHANGED <<specs, registry, fwspec, rdev, rarg, viotVars, topoVars,
                   dpc, darg, dcalls>>

\* a driver calls virt_set_iommu_ops(dev, ops)
virt_set_iommu_ops_enter ==
    /\ dpc = "idle"
    /\ dcalls < MaxOpsCalls
    /\ \E dev \in IommuDevs, ops \in Ops : darg' = [dev |-> dev, ops |-> ops]
    /\ dpc' = "lock"
    /\ dcalls' = dcalls + 1
    /\ UNCHANGED <<specs, registry, viotVars, topoVars, resolverVars, viommus_lock>>

\* virt_set_iommu_ops: mutex_lock(&viommus_lock)
virt_set_iommu_ops_lock ==
    /\ dpc = "lock"
    /\ viommus_lock = ""
    /\ viommus_lock' = "driver"
    /\ dpc' = "locked"
    /\ UNCHANGED <<specs, registry, viotVars, topoVars, resolverVars, darg, dcalls>>

\* virt_set_iommu_ops: the walk of viommus and mutex_unlock
virt_set_iommu_ops_unlock ==
    /\ dpc = "locked"
    /\ specs' = SetIommuOps(Reg, darg.dev, darg.ops).specs
    /\ viommus_lock' = mutex_unlock(viommus_lock)
    /\ dpc' = "idle"
    /\ UNCHANGED <<registry, viotVars, topoVars, resolverVars, darg, dcalls>>

\* viommu_parse_topology: mutex_lock in virt_iommu_add_endpoint_spec or in
\* virt_iommu_add_iommu_spec
viommu_publish_lock ==
    /\ tpc = "publish"
    /\ viommus_lock = ""
    /\ viommus_lock' = "topology"
    /\ tpc' = "locked"
    /\ UNCHANGED <<specs, registry, cfg, ti, toffset, tendpoints, tspec, tret,
                   viotVars, resolverVars, dpc, darg, dcalls>>

\* viommu_parse_topology: list_add and mutex_unlock in
\* virt_iommu_add_endpoint_spec, or in virt_iommu_add_iommu_spec once every
\* endpoint is published
viommu_publish_unlock ==
    /\ tpc = "locked"
    /\ IF tendpoints # <<>>
       THEN LET reg == virt_iommu_add_endpoint_spec(Reg, Head(tendpoints))
            IN /\ pci_endpoints' = reg.pci_endpoints
               /\ mmio_endpoints' = reg.mmio_endpoints
               /\ tendpoints' = Tail(tendpoints)
               /\ tpc' = "publish"
               /\ UNCHANGED <<viommus, tret>>
       ELSE /\ viommus' = virt_iommu_add_iommu_spec(Reg, tspec).viommus
            /\ tret' = 0
            /\ tpc' = "done"
            /\ UNCHANGED <<pci_endpoints, mmio_endpoints, tendpoints>>
    /\ viommus_lock' = mutex_unlock(viommus_lock)
    /\ UNCHANGED <<specs, cfg, ti, toffset, tspec, viotVars, resolverVars,
                   dpc, darg, dcalls>>

InitRegistry ==
    /\ specs = <<>>
    /\ viommus = <<>>
    /\ pci_endpoints = <<>>
    /\ mmio_endpoints = <<>>

InitViotWalk ==
    /\ iommus = <<>>
    /\ vpc = "init"
    /\ vi = 0
    /\ vnode = 0
    /\ vret = 0
    /\ vread = 0

InitTopoWalk ==
    /\ tpc = "init"
    /\ ti = 0
    /\ toffset = 0
    /\ tendpoints = <<>>
    /\ tspec = 0
    /\ tret = 0

InitResolver ==
    /\ fwspec = [d \in Dev |-> NoFwspec]
    /\ rpc = "idle"
    /\ rdev = 0
    /\ repid = U32Of(0, 0)
    /\ rspec = 0
    /\ rarg = [first |-> "ops", val |-> 0]
    /\ rret = NoCall

\* viommus_lock is free and no driver is calling
InitLock ==
    /\ viommus_lock = ""
    /\ dpc = "idle"
    /\ darg = [dev |-> 0, ops |-> 0]
    /\ dcalls = 0

NoTable == [header_length |-> 0, node_offset |-> 0, node_count |-> 0, nodes |-> <<>>]
NoRegion == [dev |-> 1, offset |-> 0, num_items |-> 0, items |-> <<>>, max_len |-> 0]

\* The VIOT table walk alone, over tables of every shape.
InitViot ==
    /\ InitRegistry
    /\ InitViotWalk
    /\ InitTopoWalk
    /\ InitResolver
    /\ InitLock
    /\ viot \in Tables(ViotNodes, TableLengths, NodeOffsets, MaxNodes)
    /\ cfg = NoRegion

NextViot ==
    \/ viot_parse_nodes
    \/ viot_parse_nodes_loop

SpecViot == InitViot /\ [][NextViot]_vars

\* The built-in topology walk alone, over regions of every shape.
InitTopo ==
    /\ InitRegistry
    /\ InitViotWalk
    /\ InitTopoWalk
    /\ InitResolver
    /\ InitLock
    /\ viot = NoTable
    /\ cfg \in Regions(TopoItems, {1}, TopoOffsets, TopoRoom, MaxItems)

NextTopo ==
    \/ viommu_parse_topology
    \/ viommu_parse_topology_loop
    \/ viommu_publish_endpoint
    \/ viommu_publish_iommu

SpecTopo == InitTopo /\ [][NextTopo]_vars

\* The whole: both walks, the IOMMU drivers' calls and the resolver, over
\* well-formed tables and regions that describe the devices of the system.
BootNodes ==
    {IommuPciNode(SizeofIommuPci, 0, 0), IommuMmioNode(SizeofIommuMmio, 8192),
     PciRangeNode(SizeofPciRange, 0, 0, 2, U32Of(65535, 65535), SizeofViot),
     PciRangeNode(SizeofPciRange, 0, 1, 2, U32Of(0, 100), SizeofViot),
     MmioNode(SizeofMmio, 4096, U32Of(0, 7), SizeofViot)}

BootItems ==
    {TopoPciRange(SizeofTopoPciRange, 0, 1, 2, U32Of(0, 50)),
     TopoMmio(SizeofTopoMmio, 4096, U32Of(0, 9))}

\* a table every node of which the walk accepts: the nodes fit the table,
\* are as long as their type's structure, and every endpoint node points at
\* an IOMMU node
WellFormedTable(t) ==
    /\ t.node_offset >= SizeofViot
    /\ t.node_count = Len(t.nodes)
    /\ \A k \in 1..Len(t.nodes) :
        LET n == t.nodes[k]
            target == NodeAt(t, n.output_node)
            inTable(off, len) ==
                /\ off >= t.node_offset
                /\ len >= SizeofNode
                /\ off + len <= t.header_length
            iommuAt(off) ==
                /\ inTable(off, target.length)
                /\ \E j \in 1..Len(t.nodes) : NodeStart(t, j) = off
                /\ \/ /\ target.type = ACPI_VIOT_NODE_VIRTIO_IOMMU_PCI
                      /\ target.length >= SizeofIommuPci
                   \/ /\ target.type = ACPI_VIOT_NODE_VIRTIO_IOMMU_MMIO
                      /\ target.length >= SizeofIommuMmio
        IN /\ inTable(NodeStart(t, k), n.length)
           /\ n.type = ACPI_VIOT_NODE_PCI_RANGE =>
                n.length >= SizeofPciRange /\ iommuAt(n.output_node)
           /\ n.type = ACPI_VIOT_NODE_MMIO =>
                n.length >= SizeofMmio /\ iommuAt(n.output_node)

Init ==
    /\ InitRegistry
    /\ InitViotWalk
    /\ InitTopoWalk
    /\ InitResolver
    /\ InitLock
    /\ viot \in {t \in Tables(BootNodes, {256}, {SizeofViot}, MaxBootNodes) : WellFormedTable(t)}
    /\ cfg \in Regions(BootItems, {1}, {64}, {192}, MaxBootItems)

\* acpi_viot_init is __init code, run before the PCI fixups; the drivers
\* probe once both walks are over.  A behaviour follows the probes of one
\* device: a device's resolution reads the registry and its own fwspec only.
ViotWalked == vpc = "done"
Booted == vpc = "done" /\ tpc = "done"
SameDevice == rdev = 0 \/ rdev' = rdev

Next ==
    \/ viot_parse_nodes
    \/ viot_parse_nodes_loop
    \/ ViotWalked /\ viommu_parse_topology
    \/ ViotWalked /\ viommu_parse_topology_loop
    \/ ViotWalked /\ viommu_publish_endpoint
    \/ ViotWalked /\ viommu_publish_iommu
    \/ Booted /\ virt_set_iommu_ops
    \/ Booted /\ virt_dma_configure /\ SameDevice
    \/ Booted /\ virt_iommu_setup_self
    \/ Booted /\ virt_iommu_setup_ops
    \/ Booted /\ virt_iommu_setup_arg
    \/ Booted /\ virt_iommu_setup_init
    \/ Booted /\ virt_iommu_setup_return

Spec == Init /\ [][Next]_vars

\* The whole with viommus_lock shown.  The config region is walked while the
\* endpoints probe; the drivers call virt_set_iommu_ops once both walks are
\* over.  A thread that can take a step takes it in the end, and a thread
\* that waits for viommus_lock gets it when it is free again and again.
\* The tables: a PCI IOMMU that manages a PCI range around itself, and an
\* MMIO IOMMU that manages a platform device.
LockTables ==
    {[header_length |-> 256, node_offset |-> SizeofViot, node_count |-> Len(nodes),
      nodes |-> nodes] :
        nodes \in {<<IommuPciNode(SizeofIommuPci, 0, 0),
                     PciRangeNode(SizeofPciRange, 0, 0, 2, U32Of(0, 100), SizeofViot)>>,
                   <<IommuMmioNode(SizeofIommuMmio, 8192),
                     MmioNode(SizeofMmio, 4096, U32Of(0, 7), SizeofViot)>>}}

InitLockSpec ==
    /\ InitRegistry
    /\ InitViotWalk
    /\ InitTopoWalk
    /\ InitResolver
    /\ InitLock
    /\ viot \in LockTables
    /\ cfg \in Regions(BootItems, {1}, {64}, {192}, MaxBootItems)

ViotStep == viot_parse_nodes \/ viot_parse_nodes_loop

TopologyStep ==
    ViotWalked /\ (\/ viommu_parse_topology
                   \/ viommu_parse_topology_loop
                   \/ viommu_publish_unlock)

ResolverStep ==
    ViotWalked /\ (\/ virt_iommu_setup_lookup
                   \/ virt_iommu_setup_self
                   \/ virt_iommu_setup_ops
                   \/ virt_iommu_setup_arg
                   \/ virt_iommu_setup_init
                   \/ virt_iommu_setup_return)

NextLock ==
    \/ viot_parse_nodes
    \/ viot_parse_nodes_loop
    \/ ViotWalked /\ viommu_parse_topology
    \/ ViotWalked /\ viommu_parse_topology_loop
    \/ ViotWalked /\ viommu_publish_lock
    \/ ViotWalked /\ viommu_publish_unlock
    \/ Booted /\ virt_set_iommu_ops_enter
    \/ Booted /\ virt_set_iommu_ops_lock
    \/ Booted /\ virt_set_iommu_ops_unlock
    \/ ViotWalked /\ virt_iommu_setup_enter /\ SameDevice
    \/ ViotWalked /\ virt_iommu_setup_lock
    \/ ViotWalked /\ virt_iommu_setup_lookup
    \/ ViotWalked /\ virt_iommu_setup_self
    \/ ViotWalked /\ virt_iommu_setup_ops
    \/ ViotWalked /\ virt_iommu_setup_arg
    \/ ViotWalked /\ virt_iommu_setup_init
    \/ ViotWalked /\ virt_iommu_setup_return

FairLock ==
    /\ WF_vars(ViotStep)
    /\ WF_vars(TopologyStep)
    /\ WF_vars(ResolverStep)
    /\ WF_vars(Booted /\ virt_set_iommu_ops_unlock)
    /\ SF_vars(ViotWalked /\ viommu_publish_lock)
    /\ SF_vars(ViotWalked /\ virt_iommu_setup_lock)
    /\ SF_vars(Booted /\ virt_set_iommu_ops_lock)

SpecLock == InitLockSpec /\ [][NextLock]_vars /\ FairLock

(***************************************************************************)
(* Properties of the VIOT table walk (SpecViot).                           *)
(***************************************************************************)
\* the endpoint specs published so far, whichever list they are on
Endpoints == pci_endpoints \o mmio_endpoints

\* C4: at most one IOMMU spec exists per table offset: the visited list holds
\* no offset twice and no spec twice, every visited IOMMU is registered once,
\* and asking again for an offset already visited returns the same spec and
\* changes neither the visited list nor the registry.
C4_OneIommuPerOffset ==
    /\ \A j, k \in 1..Len(iommus) :
        (iommus[j].offset = iommus[k].offset \/ iommus[j].spec = iommus[k].spec)
            => j = k
    /\ Len(viommus) = Len(iommus)
    /\ \A k \in 1..Len(iommus) :
        /\ Cardinality({j \in 1..Len(viommus) : viommus[j] = iommus[k].spec}) = 1
        /\ LET again == viot_get_iommu(viot, ViotState, iommus[k].offset)
           IN /\ again.spec = iommus[k].spec
              /\ again.st.iommus = iommus
              /\ again.st.reg = Reg

\* two endpoint records referred to the same offset: one IOMMU spec serves both
C4_Witness ==
    /\ Len(Endpoints) >= 2
    /\ Len(iommus) = 1
    /\ Endpoints[1].viommu = iommus[1].spec
    /\ Endpoints[2].viommu = iommus[1].spec

IsPciRange(n) == n.type = ACPI_VIOT_NODE_PCI_RANGE
IsMmio(n) == n.type = ACPI_VIOT_NODE_MMIO

\* the selector an endpoint record describes
RecordDevid(n) ==
    IF IsPciRange(n) THEN PciDevid(n.segment, n.bdf_start, n.bdf_end)
    ELSE MmioDevid(n.base)

\* list holds one endpoint spec per record of recs, the latest record first,
\* each with its record's selector and endpoint id and with the IOMMU spec
\* that stands for its output_node
PublishedFrom(list, recs) ==
    /\ Len(list) = Len(recs)
    /\ \A j \in 1..Len(recs) :
        LET ep == list[Len(recs) - j + 1]
        IN /\ ep.devid = RecordDevid(recs[j])
           /\ ep.endpoint_id = recs[j].endpoint
           /\ ep.viommu \in 1..Len(specs)
           /\ \E i \in 1..Len(iommus) :
                /\ iommus[i].offset = recs[j].output_node
                /\ iommus[i].spec = ep.viommu
           /\ \E i \in 1..Len(viommus) : viommus[i] = ep.viommu

\* C5: once the walk of a well-formed table is over, every PCI_RANGE and MMIO
\* record has exactly one endpoint spec and no other record has any; each
\* spec carries its record's selector, endpoint id and a non-null IOMMU
\* resolved from output_node; records with the same output_node share one
\* IOMMU spec, records with different ones do not.
C5_OneEndpointPerRecord ==
    (vpc = "done" /\ WellFormedTable(viot)) =>
        LET pci == SelectSeq(viot.nodes, IsPciRange)
            mmio == SelectSeq(viot.nodes, IsMmio)
            recs == pci \o mmio
            eps == <<pci_endpoints, mmio_endpoints>>
            specOf(n) == iommus[SeenIommu(iommus, n.output_node)].spec
        IN /\ vret = 0
           /\ vi = viot.node_count
           /\ PublishedFrom(pci_endpoints, pci)
           /\ PublishedFrom(mmio_endpoints, mmio)
           /\ \A a, b \in 1..Len(recs) :
                (recs[a].output_node = recs[b].output_node)
                    <=> (specOf(recs[a]) = specOf(recs[b]))

\* a well-formed table with a PCI range and an MMIO endpoint behind one IOMMU
C5_Witness ==
    /\ vpc = "done"
    /\ WellFormedTable(viot)
    /\ Len(pci_endpoints) = 1
    /\ Len(mmio_endpoints) = 1
    /\ pci_endpoints[1].viommu = mmio_endpoints[1].viommu

\* the record at off fails validation: it starts outside the node array, its
\* length is below the sub-header, or below the structure of its type
RecordInvalid(t, off) ==
    LET n == NodeAt(t, off)
    IN \/ off < t.node_offset
       \/ off >= t.header_length
       \/ n.length < SizeofNode
       \/ IsPciRange(n) /\ n.length < SizeofPciRange
       \/ IsMmio(n) /\ n.length < SizeofMmio

\* C6: the first record that fails validation ends the walk at that record
\* with an error; that step publishes nothing and changes no spec published
\* before, and once the walk is over nothing is published any more.
C6_StopAtFirstInvalid ==
    [][/\ (vpc = "loop" /\ vi < viot.node_count /\ RecordInvalid(viot, vnode))
            => /\ vpc' = "done"
               /\ vret' # 0
               /\ vi' = vi
               /\ UNCHANGED <<specs, registry, iommus>>
       /\ vpc = "done" => UNCHANGED <<specs, registry, iommus>>]_vars

\* the walk stopped at an invalid record after it had published an endpoint
C6_Witness ==
    /\ vpc = "done"
    /\ vret # 0
    /\ vi >= 1
    /\ vi < viot.node_count
    /\ RecordInvalid(viot, vnode)
    /\ Len(Endpoints) >= 1

\* the records the walk has accepted: those it has gone past, and the IOMMU
\* records it has visited; each as [off, len]
Accepted ==
    {[off |-> NodeStart(viot, k), len |-> viot.nodes[k].length] : k \in 1..vi}
    \cup {[off |-> iommus[k].offset, len |-> NodeAt(viot, iommus[k].offset).length]
            : k \in 1..Len(iommus)}

\* C7: every record the walk accepts lies within [node_offset,
\* header.length), start and end, and the walk reads no byte at or beyond
\* header.length.
C7_AcceptedWithinTable ==
    /\ vread <= viot.header_length
    /\ \A r \in Accepted :
        /\ r.off >= viot.node_offset
        /\ r.off + r.len <= viot.header_length

\* the cursor p of the walk is where the table's record i + 1 starts
CursorAt(p, i) == i < Len(viot.nodes) => p = NodeStart(viot, i + 1)

\* C9: a record that passes validation and is neither a PCI_RANGE nor an MMIO
\* record is skipped: the step publishes nothing, the walk goes on without an
\* error, and the cursor moves by the record's length to the start of the
\* next record, which is parsed in its turn.
C9_UnknownTypeSkipped ==
    [][(/\ vpc = "loop"
        /\ vi < viot.node_count
        /\ ~RecordInvalid(viot, vnode)
        /\ ~IsPciRange(NodeAt(viot, vnode))
        /\ ~IsMmio(NodeAt(viot, vnode)))
            => /\ vpc' = "loop"
               /\ vret' = 0
               /\ vi' = vi + 1
               /\ vnode' = vnode + NodeAt(viot, vnode).length
               /\ CursorAt(vnode', vi')
               /\ UNCHANGED <<specs, registry, iommus>>]_vars

\* a record of an unknown type came first, and an endpoint record after it was
\* published
C9_Witness ==
    /\ vpc = "done"
    /\ vret = 0
    /\ Len(viot.nodes) >= 2
    /\ viot.nodes[1].type = 5
    /\ Len(Endpoints) >= 1

(***************************************************************************)
(* Properties of the built-in topology walk (SpecTopo).                    *)
(***************************************************************************)
\* the item at off does not fit the region: its sub-header or its declared
\* length passes max_len
ItemOverflows(c, off) ==
    \/ off + SizeofTopoHeader > c.max_len
    \/ off + ItemAt(c, off).length > c.max_len

IsTopoPciRange(it) == it.type = VIRTIO_IOMMU_TOPO_PCI_RANGE
IsTopoMmio(it) == it.type = VIRTIO_IOMMU_TOPO_MMIO

\* an item of a known type that is shorter than its structure
ItemTooShort(it) ==
    \/ IsTopoPciRange(it) /\ it.length < SizeofTopoPciRange
    \/ IsTopoMmio(it) /\ it.length < SizeofTopoMmio

\* C3: the walk of a config region publishes all or nothing.  An item that
\* overflows max_len ends the walk with -EOVERFLOW, a known item shorter than
\* its structure ends it with an error; the registry does not change while
\* the items are walked, and when the walk has failed the registry is what it
\* was, the endpoints parsed so far are gone and so is the IOMMU spec of the
\* transport.
C3_AllOrNothing ==
    [][/\ (tpc = "loop" /\ ti < cfg.num_items /\ ItemOverflows(cfg, toffset))
            => (tpc' = "done" /\ tret' = -EOVERFLOW)
       /\ (/\ tpc = "loop"
           /\ ti < cfg.num_items
           /\ ~ItemOverflows(cfg, toffset)
           /\ ItemTooShort(ItemAt(cfg, toffset)))
            => (tpc' = "done" /\ tret' # 0)
       /\ tpc \in {"init", "loop"} => UNCHANGED registry
       /\ (tpc' = "done" /\ tret' # 0)
            => /\ tendpoints' = <<>>
               /\ Len(specs') = Len(specs) - 1
               /\ \A k \in 1..Len(viommus') : viommus'[k] # tspec
               /\ \A k \in 1..Len(pci_endpoints') : pci_endpoints'[k].viommu # tspec
               /\ \A k \in 1..Len(mmio_endpoints') : mmio_endpoints'[k].viommu # tspec]_vars

\* two items were parsed, the third overflowed, and the registry is empty
C3_Witness ==
    /\ tpc = "done"
    /\ tret = -EOVERFLOW
    /\ cfg.num_items = 3
    /\ ti = 2
    /\ ~ItemTooShort(cfg.items[1]) /\ ~ItemTooShort(cfg.items[2])
    /\ viommus = <<>>
    /\ pci_endpoints = <<>>
    /\ mmio_endpoints = <<>>
    /\ specs = <<>>

\* every item of the region fits it, and the known ones are long enough
ItemsInBounds(c) ==
    \A k \in 1..Len(c.items) :
        /\ ~ItemOverflows(c, ItemStart(c, k))
        /\ ~ItemTooShort(c.items[k])

\* the items of the region the parser knows
KnownItems(c) ==
    {k \in 1..Len(c.items) : IsTopoPciRange(c.items[k]) \/ IsTopoMmio(c.items[k])}

\* C8: the walk of a region whose items all fit, whatever their types,
\* succeeds: it publishes the IOMMU spec and one endpoint spec per item of a
\* known type, and skips the others.
C8_UnknownItemSkipped ==
    (/\ tpc = "done"
     /\ cfg.offset # 0
     /\ cfg.num_items # 0
     /\ ItemsInBounds(cfg))
        => /\ tret = 0
           /\ viommus = <<tspec>>
           /\ Len(pci_endpoints) + Len(mmio_endpoints) = Cardinality(KnownItems(cfg))

(***************************************************************************)
(* Properties of the resolver (Spec).                                      *)
(***************************************************************************)
\* dev is the transport of the IOMMU spec sp: sp's selector describes it, or
\* sp has been bound to it
OwnTransport(dev, sp) == viommu_device_match(dev, sp.devid) \/ sp.dev = dev

\* C1: when a device's resolution is deferred because the IOMMU spec of its
\* endpoint has no ops, then after virt_set_iommu_ops is called with ops for
\* that IOMMU's transport, resolving the device again returns those ops with
\* the endpoint id of the deferred attempt.
C1_DeferThenResolve ==
    \A dev \in Dev, transport \in Dev, ops \in Ops \ {0} :
        LET m == LookupEndpoint(Reg, dev)
            first == virt_iommu_setup(Reg, fwspec[dev], dev)
            second == virt_iommu_setup(SetIommuOps(Reg, transport, ops), first.fw, dev)
        IN (/\ Booted
            /\ first.ops = -EPROBE_DEFER
            /\ OwnTransport(transport, specs[m.viommu_spec]))
                => /\ second.ops = ops
                   /\ second.epid = first.epid

\* the devices that are the transport of some registered IOMMU spec
Transports ==
    {dev \in Dev : \E k \in 1..Len(viommus) : OwnTransport(dev, specs[viommus[k]])}

\* the devices that are the transport of the IOMMU spec of the first endpoint
\* spec that matches them
OwnEndpoints ==
    {dev \in Dev : LET m == LookupEndpoint(Reg, dev)
                   IN m.viommu_spec # 0 /\ OwnTransport(dev, specs[m.viommu_spec])}

\* a device of devs is never given an IOMMU: its calls return NULL without
\* going past the self-exclusion test, and it has no fwspec
NeverTranslated(devs) ==
    \A dev \in devs :
        /\ rret.dev = dev => rret.setup = 0
        /\ rdev = dev => rpc \in {"idle", "matched"}
        /\ fwspec[dev] = NoFwspec
        /\ virt_iommu_setup(Reg, fwspec[dev], dev).ops = 0

\* C2 as stated: a device that is the transport of any registered IOMMU spec
\* resolves to no match, whichever IOMMU manages the range it falls in.
C2_TransportNeverMatched == Booted => NeverTranslated(Transports)

\* C2: a device that is the transport of the IOMMU spec of the first endpoint
\* spec matching it resolves to no match; the test follows the lookup, and is
\* made against that IOMMU spec only.
C2_OwnIommuNeverMatched == Booted => NeverTranslated(OwnEndpoints)

\* the IOMMU 00:00.0 lies in a PCI range that it manages itself, and its
\* resolution returned NULL
C2_Witness ==
    /\ rret.dev = 1
    /\ rret.setup = 0
    /\ 1 \in OwnEndpoints
    /\ FirstMatch(pci_endpoints, 1) # 0

\* a + d without the wrap at 2^32: hi reaches 2^16 when the sum does not fit
ExactAdd(a, d) ==
    [hi |-> a.hi + ((a.lo + d) \div Half), lo |-> (a.lo + d) % Half]

\* (a + d) mod 2^32
WrapAdd(a, d) == [ExactAdd(a, d) EXCEPT !.hi = @ % Half]

\* the endpoint specs of list that match dev
Matching(list, dev) ==
    {k \in 1..Len(list) : viommu_device_match(dev, list[k].devid)}

\* C10 as stated: under every registered PCI endpoint spec whose range holds a
\* device, the device's endpoint id is endpoint_id + (bdf - bdf_start); under
\* every MMIO endpoint spec whose base is the device's, it is endpoint_id; a
\* device no selector holds has no match.
C10_EveryMatchingSpec ==
    \A dev \in Dev :
        LET m == LookupEndpoint(Reg, dev)
            list == EndpointList(Reg, dev)
        IN /\ Matching(list, dev) = {} => m.viommu_spec = 0
           /\ \A k \in Matching(list, dev) :
                /\ m.viommu_spec # 0
                /\ m.epid = IF dev_is_pci(dev)
                            THEN ExactAdd(list[k].endpoint_id,
                                          pci_dev_id(dev) - list[k].devid.bdf_start)
                            ELSE list[k].endpoint_id

\* C10: the endpoint id of a device is computed from the first endpoint spec
\* of its list that matches it, the one registered last: endpoint_id + (bdf -
\* bdf_start) modulo 2^32 for a PCI device, endpoint_id for a platform
\* device; a device no selector holds has no match.  A call in progress and
\* a call that returned ops carry that endpoint id.
C10_FirstMatchingSpec ==
    /\ \A dev \in Dev :
        LET m == LookupEndpoint(Reg, dev)
            list == EndpointList(Reg, dev)
            k == CHOOSE i \in Matching(list, dev) : \A j \in Matching(list, dev) : i <= j
        IN IF Matching(list, dev) = {} THEN m.viommu_spec = 0
           ELSE /\ m.viommu_spec = list[k].viommu
                /\ m.epid = IF dev_is_pci(dev)
                            THEN WrapAdd(list[k].endpoint_id,
                                         pci_dev_id(dev) - list[k].devid.bdf_start)
                            ELSE list[k].endpoint_id
    /\ rpc # "idle" => repid = LookupEndpoint(Reg, rdev).epid
    /\ rret.setup > 0 => rret.epid = LookupEndpoint(Reg, rret.dev).epid

\* 00:01.0 resolved under a range that starts below it; and a platform device
\* resolved
C10_Witness ==
    /\ rret.setup > 0
    /\ \/ /\ rret.dev = 2
          /\ pci_endpoints[FirstMatch(pci_endpoints, 2)].devid.bdf_start = 0
          /\ rret.epid = U32Of(0, 0)
       \/ /\ rret.dev = 5
          /\ rret.epid = mmio_endpoints[FirstMatch(mmio_endpoints, 5)].endpoint_id

(***************************************************************************)
(* Properties of the locking (SpecLock).                                   *)
(***************************************************************************)
\* a step of virt_iommu_setup that reads devid, dev, ops or fwnode of the
\* IOMMU spec it found
ResolverReadsSpec ==
    \/ virt_iommu_setup_self
    \/ virt_iommu_setup_ops
    \/ virt_iommu_setup_arg
    \/ virt_iommu_setup_init
    \/ virt_iommu_setup_return

\* C11: every step of the resolver that reads owning device, ops or fwnode
\* of an IOMMU spec is taken with viommus_lock held by the resolver, the lock
\* virt_set_iommu_ops holds when it writes them.
C11_ReadsUnderLock ==
    [][ResolverReadsSpec => viommus_lock = "resolver"]_vars

\* C17: no call blocks for ever and no return path keeps the lock: a thread
\* owns viommus_lock only inside its critical section, and under fair
\* scheduling every call of the resolver, every call of virt_set_iommu_ops
\* and the publication of a config region's topology comes to its end.
C17_CallsReturn ==
    /\ [](viommus_lock = "resolver" => rpc = "locked")
    /\ [](viommus_lock = "driver" => dpc = "locked")
    /\ [](viommus_lock = "topology" => tpc = "locked")
    /\ (rpc # "idle") ~> (rpc = "idle" /\ viommus_lock # "resolver")
    /\ (dpc # "idle") ~> (dpc = "idle" /\ viommus_lock # "driver")
    /\ (tpc \in {"loop", "publish", "locked"}) ~> (tpc = "done" /\ viommus_lock # "topology")

\* the resolver waits for the lock that virt_set_iommu_ops holds
C17_Witness ==
    /\ rpc = "lock"
    /\ dpc = "locked"
    /\ viommus_lock = "driver"

(***************************************************************************)
(* Properties of virt_set_iommu_ops (Spec).                                *)
(***************************************************************************)
\* the IOMMU specs that exist before and after a step
Kept == {s \in 1..Len(specs) : s <= Len(specs')}

\* C12 as stated: the owning device and the ops of an IOMMU spec are set once;
\* once set, neither is changed, cleared or set again.
C12_SetOnce ==
    [][\A s \in Kept :
         /\ specs[s].dev # 0 => specs'[s].dev = specs[s].dev
         /\ specs[s].ops # 0 => specs'[s].ops = specs[s].ops]_vars

\* C12 amended: the owning device of an IOMMU spec is bound at most once and
\* never changes afterwards; ops and fwnode change only in a step that leaves
\* the spec bound to a device, and take the values of that call (they may be
\* cleared and set again).
C12_DeviceBoundOnce ==
    [][\A s \in Kept :
         /\ specs[s].dev # 0 => specs'[s].dev = specs[s].dev
         /\ specs'[s].ops # specs[s].ops \/ specs'[s].fwnode # specs[s].fwnode
              => /\ specs'[s].dev \in IommuDevs
                 /\ specs'[s].fwnode =
                      IF specs'[s].ops # 0 THEN Devices[specs'[s].dev].fwnode ELSE 0
         /\ specs'[s].devid = specs[s].devid]_vars

\* an IOMMU spec of the VIOT (created unbound) that is bound to its device
\* and has no ops: virt_set_iommu_ops(dev, NULL) was the last call for it
C12_Witness ==
    \E s \in 1..Len(specs) :
        /\ specs[s].devid.type # 0
        /\ specs[s].dev \in IommuDevs
        /\ specs[s].ops = 0

\* positions in viommus of the specs whose selector matches dev or whose
\* owning device is dev
Candidates(dev) ==
    {k \in 1..Len(viommus) :
        \/ viommu_device_match(dev, specs[viommus[k]].devid)
        \/ specs[viommus[k]].dev = dev}

\* C13: whatever the registry, virt_set_iommu_ops(dev, ops) writes the first
\* spec of viommus whose selector matches dev or whose owning device is dev,
\* and only that one: it binds dev and sets ops and fwnode together (fwnode
\* of dev for ops, NULL for no ops); no spec has a fwnode without ops.
C13_FirstSpecBound ==
    /\ \A s \in 1..Len(specs) : specs[s].ops = 0 => specs[s].fwnode = 0
    /\ \A dev \in IommuDevs, ops \in Ops :
        LET after == SetIommuOps(Reg, dev, ops)
            ks == Candidates(dev)
            k == CHOOSE i \in ks : \A j \in ks : i <= j
        IN IF ks = {} THEN after = Reg
           ELSE /\ after.specs[viommus[k]] =
                     [specs[viommus[k]] EXCEPT
                        !.dev = dev, !.ops = ops,
                        !.fwnode = IF ops = 0 THEN 0 ELSE Devices[dev].fwnode]
                /\ \A s \in 1..Len(specs) :
                     s # viommus[k] => after.specs[s] = specs[s]
                /\ after.viommus = viommus
                /\ after.pci_endpoints = pci_endpoints
                /\ after.mmio_endpoints = mmio_endpoints

\* two specs of viommus stand for one device, virt_set_iommu_ops was called
\* for it: the first has the ops and the fwnode, the second has neither
C13_Witness ==
    \E dev \in IommuDevs : \E k, j \in Candidates(dev) :
        /\ k < j
        /\ specs[viommus[k]].dev = dev
        /\ specs[viommus[k]].ops # 0
        /\ specs[viommus[k]].fwnode = Devices[dev].fwnode
        /\ specs[viommus[j]].ops = 0

(***************************************************************************)
(* Properties of virt_dma_configure (Spec).                                *)
(***************************************************************************)
\* a step in which a call of virt_dma_configure returns
ConfigureReturns == rpc' = "idle" /\ (rpc # "idle" \/ rret' # rret)

\* the step of virt_iommu_setup that finds the ops of the IOMMU unset: the
\* device matched an endpoint spec and is not the IOMMU of that spec
FindsOpsUnset == rpc = "acs" /\ specs[rspec].ops = 0

EndpointRecord(t, off) ==
    /\ viot_check_bounds(t, off) = 0
    /\ \/ IsPciRange(NodeAt(t, off)) /\ NodeAt(t, off).length >= SizeofPciRange
       \/ IsMmio(NodeAt(t, off)) /\ NodeAt(t, off).length >= SizeofMmio

\* offset o is outside the node array
OutOfBounds(t, o) == o < t.node_offset \/ o >= t.header_length

\* the node at offset o is too short for a node, or for its type
NestedTooShort(t, o) ==
    \/ NodeAt(t, o).length < SizeofNode
    \/ /\ NodeAt(t, o).type = ACPI_VIOT_NODE_VIRTIO_IOMMU_PCI
       /\ NodeAt(t, o).length < SizeofIommuPci
    \/ /\ NodeAt(t, o).type = ACPI_VIOT_NODE_VIRTIO_IOMMU_MMIO
       /\ NodeAt(t, o).length < SizeofIommuMmio

\* the node at offset o is not an IOMMU node
NestedNotIommu(t, o) ==
    NodeAt(t, o).type \notin {ACPI_VIOT_NODE_VIRTIO_IOMMU_PCI,
                              ACPI_VIOT_NODE_VIRTIO_IOMMU_MMIO}

\* the endpoint record at off names an output_node that cannot be resolved
Unresolvable(t, off) ==
    /\ EndpointRecord(t, off)
    /\ LET o == NodeAt(t, off).output_node
       IN OutOfBounds(t, o) \/ NestedTooShort(t, o) \/ NestedNotIommu(t, o)

\* C15: an iteration on an endpoint record whose output_node is out of
\* bounds, too short or not an IOMMU node ends the walk with -ENODEV and
\* records nothing: no endpoint spec, no IOMMU spec, no entry in the list of
\* visited IOMMU nodes.
C15_UnresolvedAborts ==
    [][vpc = "loop" /\ vi < viot.node_count /\ Unresolvable(viot, vnode)
         => /\ vret' = -ENODEV
            /\ vpc' = "done"
            /\ UNCHANGED <<specs, registry, iommus>>]_vars

\* the walk stopped with -ENODEV at an endpoint record that points at a node
\* inside the table that is not an IOMMU node, after it published a record
C15_Witness ==
    /\ vpc = "done"
    /\ vret = -ENODEV
    /\ Unresolvable(viot, vnode)
    /\ ~OutOfBounds(viot, NodeAt(viot, vnode).output_node)
    /\ ~NestedTooShort(viot, NodeAt(viot, vnode).output_node)
    /\ Len(pci_endpoints) + Len(mmio_endpoints) >= 1

(***************************************************************************)
(* More properties of the built-in topology walk (SpecTopo).               *)
(***************************************************************************)
\* the endpoint spec viommu_parse_topology makes of the k-th item of c
ItemEndpoint(c, k, viommu) ==
    LET it == c.items[k]
    IN [devid |-> IF IsTopoPciRange(it)
                  THEN PciDevid(it.segment, it.bdf_start, it.bdf_end)
                  ELSE MmioDevid(it.address),
        endpoint_id |-> it.endpoint,
        viommu |-> viommu]

\* how many entries of list are the spec e
CountIn(list, e) == Cardinality({i \in 1..Len(list) : list[i] = e})

\* C16: when the walk of a config region that describes a topology returns 0,
\* it has published one IOMMU spec, the one allocated before the loop with
\* dev set to the transport, and one endpoint spec per item, on the list of
\* the item's type and pointing at that IOMMU spec; it published nothing
\* else.
C16_OneIommuAllEndpoints ==
    tpc = "done" /\ tret = 0 /\ cfg.offset # 0 /\ cfg.num_items # 0 =>
        /\ viommus = <<tspec>>
        /\ specs = <<[ZeroIommuSpec EXCEPT !.dev = cfg.dev]>>
        /\ cfg.num_items <= Len(cfg.items)
        /\ Len(pci_endpoints) + Len(mmio_endpoints) = cfg.num_items
        /\ \A i \in 1..Len(pci_endpoints) :
              /\ pci_endpoints[i].viommu = tspec
              /\ pci_endpoints[i].devid.type = VIRT_IOMMU_DEV_TYPE_PCI
        /\ \A i \in 1..Len(mmio_endpoints) :
              /\ mmio_endpoints[i].viommu = tspec
              /\ mmio_endpoints[i].devid.type = VIRT_IOMMU_DEV_TYPE_MMIO
        /\ \A k \in 1..cfg.num_items :
              LET e == ItemEndpoint(cfg, k, tspec)
                  same == {j \in 1..cfg.num_items : ItemEndpoint(cfg, j, tspec) = e}
              IN /\ IsTopoPciRange(cfg.items[k]) \/ IsTopoMmio(cfg.items[k])
                 /\ CountIn(IF IsTopoPciRange(cfg.items[k])
                            THEN pci_endpoints ELSE mmio_endpoints, e)
                      = Cardinality(same)

\* a region with a PCI range and an MMIO item was walked and published
C16_Witness ==
    /\ tpc = "done"
    /\ tret = 0
    /\ cfg.num_items >= 2
    /\ viommus = <<tspec>>
    /\ Len(pci_endpoints) >= 1
    /\ Len(mmio_endpoints) >= 1

\* C18: an iteration of the config-region walk on an item whose sub-header or
\* declared length passes max_len ends the walk with -EOVERFLOW, and no
\* iteration reads a byte of the region at or beyond max_len: the sub-header
\* is read only when it fits, the payload only when the declared length fits
\* and covers it.
C18_ReadsBelowMaxLen ==
    [][tpc = "loop" /\ ti < cfg.num_items =>
         LET r == TopologyItem(cfg, toffset, tspec)
         IN /\ r.read <= cfg.max_len
            /\ r.read > 0 => toffset + SizeofTopoHeader <= cfg.max_len
            /\ r.read > toffset + SizeofTopoHeader
                  => toffset + ItemAt(cfg, toffset).length <= cfg.max_len
            /\ ItemOverflows(cfg, toffset) <=> r.ret = -EOVERFLOW
            /\ ItemOverflows(cfg, toffset)
                  => tret' = -EOVERFLOW /\ tpc' = "done" /\ UNCHANGED registry
            /\ ~ItemOverflows(cfg, toffset) /\ r.ret = 0
                  => /\ toffset' = toffset + ItemAt(cfg, toffset).length
                     /\ r.read <= toffset']_vars

\* the walk stopped with -EOVERFLOW at an item whose sub-header lies below
\* max_len and whose payload, as long as its structure, passes it
C18_Witness ==
    /\ tpc = "done"
    /\ tret = -EOVERFLOW
    /\ toffset + SizeofTopoHeader <= cfg.max_len
    /\ toffset + ItemAt(cfg, toffset).length > cfg.max_len
    /\ ~ItemTooShort(ItemAt(cfg, toffset))
    /\ TopologyItem(cfg, toffset, tspec).read = toffset + SizeofTopoHeader

\* C19: the cursor of the VIOT walk moves only in an iteration whose record
\* passed validation, by the declared length of that record, which is at
\* least the size of a node header; an iteration on a record shorter than
\* that ends the walk where it stands.  The cursor never moves back, the
\* iterations are counted up to node_count and the walk is over once they
\* are done.
C19_CursorAdvances ==
    /\ [](vpc = "loop" => vi <= viot.node_count /\ vnode >= viot.node_offset)
    /\ [][vpc = "loop" =>
            /\ vnode' # vnode \/ vi' # vi =>
                  /\ vi < viot.node_count
                  /\ ~RecordInvalid(viot, vnode)
                  /\ vret' = 0
                  /\ vi' = vi + 1
                  /\ vnode' = vnode + NodeAt(viot, vnode).length
                  /\ vnode' >= vnode + SizeofNode
            /\ vi < viot.node_count /\ NodeAt(viot, vnode).length < SizeofNode =>
                  /\ vpc' = "done"
                  /\ vret' # 0
                  /\ vnode' = vnode
            /\ vi = viot.node_count => vpc' = "done"
            /\ vpc' = "loop" => vi' = vi + 1]_vars
    /\ [][vpc = "done" => vpc' = "done" /\ vnode' = vnode /\ vi' = vi]_vars

\* the walk took two records and stopped at a third that has length zero
C19_Witness ==
    /\ vpc = "done"
    /\ vi = 2
    /\ vret # 0
    /\ vnode >= viot.node_offset + 2 * SizeofNode
    /\ vnode < viot.header_length
    /\ NodeAt(viot, vnode).length = 0
    /\ Len(viot.nodes) >= 3
    /\ viot.nodes[3].length = 0

(***************************************************************************)
(* Referential integrity of the registry (Spec).                           *)
(***************************************************************************)
\* the IOMMU spec s is on viommus
InViommus(s) == \E k \in 1..Len(viommus) : viommus[k] = s

\* C20 as stated: in every state, the viommu of every endpoint spec on
\* pci_endpoints or mmio_endpoints is not NULL and is on viommus.
C20_EndpointIommuRegistered ==
    \A i \in 1..Len(Endpoints) :
        /\ Endpoints[i].viommu # 0
        /\ InViommus(Endpoints[i].viommu)

\* C20 amended: in every state, the viommu of every endpoint spec on
\* pci_endpoints or mmio_endpoints is not NULL and is an allocated IOMMU
\* spec; it is on viommus, except while viommu_parse_topology publishes: the
\* endpoint specs of the region are on their lists before the IOMMU spec of
\* the transport, allocated with dev set, is put on viommus as the last step.
\* Every IOMMU spec on viommus is allocated.
C20_EndpointIommuAllocated ==
    /\ \A i \in 1..Len(Endpoints) :
        /\ Endpoints[i].viommu \in 1..Len(specs)
        /\ \/ InViommus(Endpoints[i].viommu)
           \/ /\ tpc \in {"publish", "locked"}
              /\ Endpoints[i].viommu = tspec
              /\ specs[tspec].dev = cfg.dev
              /\ specs[tspec].ops = 0
    /\ \A k \in 1..Len(viommus) : viommus[k] \in 1..Len(specs)
    /\ tpc = "done" => \A i \in 1..Len(Endpoints) : InViommus(Endpoints[i].viommu)

\* viommu_parse_topology has put an endpoint spec on its list and not yet the
\* IOMMU spec on viommus, next to endpoint and IOMMU specs of the VIOT
C20_Witness ==
    /\ tpc = "publish"
    /\ \E i \in 1..Len(Endpoints) : Endpoints[i].viommu = tspec
    /\ ~InViommus(tspec)
    /\ \E i \in 1..Len(Endpoints) :
          Endpoints[i].viommu # tspec /\ InViommus(Endpoints[i].viommu)

(***************************************************************************)
(* The resolver next to virt_set_iommu_ops (SpecLock).                     *)
(***************************************************************************)
\* an (ops, fwnode) pair that one call of virt_set_iommu_ops with ops set
\* writes to the IOMMU spec s
WrittenTogether(s, ops, fwnode) ==
    /\ ops # 0
    /\ specs[s].dev \in IommuDevs
    /\ fwnode = Devices[specs[s].dev].fwnode

\* C21: whatever virt_set_iommu_ops does meanwhile, a call of
\* virt_iommu_setup that initialises the fwspec of the device and adds the
\* endpoint id gives it ops and a fwnode that one call of virt_set_iommu_ops
\* wrote together, and returns those ops, not NULL.
C21_ActsOnOnePair ==
    [][/\ fwspec' # fwspec =>
            /\ WrittenTogether(rspec, fwspec'[rdev].ops, fwspec'[rdev].fwnode)
            /\ fwspec'[rdev].ids # <<>>
       /\ rpc = "ret" /\ rpc' = "idle" =>
            /\ rret'.setup # 0
            /\ rret'.setup = fwspec[rdev].ops
            /\ rret'.ret = 0]_vars

\* the step in which a call of virt_set_iommu_ops(darg.dev, darg.ops) walks
\* viommus and returns
SetOpsReturns == dpc = "locked" /\ dpc' = "idle"

\* C22: a call of virt_set_iommu_ops(dev, ops) changes the fields dev, ops
\* and fwnode of at most one IOMMU spec, the first of viommus that matches
\* dev or is bound to it; every other IOMMU spec, the selector of that one,
\* every endpoint spec and the three lists stay as they are; when no spec of
\* viommus is for dev nothing changes; a spec bound to a device is not bound
\* to another one.
C22_SetOpsFrame ==
    [][SetOpsReturns =>
         LET ks == Candidates(darg.dev)
             k == CHOOSE i \in ks : \A j \in ks : i <= j
         IN /\ UNCHANGED <<viommus, pci_endpoints, mmio_endpoints>>
            /\ Len(specs') = Len(specs)
            /\ ks = {} => specs' = specs
            /\ \A s \in 1..Len(specs) :
                  /\ (ks # {} /\ s = viommus[k]) \/ specs'[s] = specs[s]
                  /\ specs'[s].devid = specs[s].devid
                  /\ specs[s].dev # 0 => specs'[s].dev = specs[s].dev]_vars

\* a call for a device that two specs of viommus stand for has returned: the
\* first has the ops, the second is as it was
C22_Witness ==
    /\ dpc = "idle"
    /\ dcalls >= 1
    /\ darg.ops # 0
    /\ \E k, j \in Candidates(darg.dev) :
          /\ k < j
          /\ specs[viommus[k]].ops = darg.ops
          /\ specs[viommus[j]].ops = 0
          /\ specs[viommus[j]].dev = 0

(***************************************************************************)
(* Repeated resolution of one device (Spec).                               *)
(***************************************************************************)
\* the fwspec fw carries ops: a resolution of its device succeeded
CarriesOps(fw) == fw.present /\ fw.ops # 0

\* a step in which a call of virt_dma_configure begins
ConfigureCalled == rpc = "idle" /\ (rret' # rret \/ rdev' # rdev \/ rpc' # rpc)

\* C23: once the fwspec of a device carries ops, every further call of
\* virt_dma_configure for it returns 0 at once, virt_iommu_setup giving NULL,
\* and does nothing: the fwspec keeps its one endpoint id for ever.  A whole
\* call on any reachable registry adds at most one id, and none to a fwspec
\* that exists.
C23_ResolvedOnce ==
    /\ [](\A d \in Probed : CarriesOps(fwspec[d]) => Len(fwspec[d].ids) = 1)
    /\ [][\A d \in Probed : CarriesOps(fwspec[d]) => fwspec'[d] = fwspec[d]]_vars
    /\ [][ConfigureCalled /\ CarriesOps(fwspec[rdev']) =>
            /\ rpc' = "idle"
            /\ rret' = Returned(rdev', 0, U32Of(0, 0))
            /\ rret'.ret = 0
            /\ UNCHANGED <<fwspec, specs, registry>>]_vars
    /\ [](rpc = "idle" => \A d \in Probed :
            LET r == virt_iommu_setup(Reg, fwspec[d], d)
            IN /\ fwspec[d].present => r.fw = fwspec[d]
               /\ Len(r.fw.ids) <= Max(1, Len(fwspec[d].ids))
               /\ CarriesOps(fwspec[d]) => r.ops = 0)

\* a device whose fwspec carries ops and one endpoint id was resolved again:
\* the call returned at once
C23_Witness ==
    /\ rpc = "idle"
    /\ rret.dev \in Probed
    /\ CarriesOps(fwspec[rret.dev])
    /\ Len(fwspec[rret.dev].ids) = 1
    /\ fwspec[rret.dev].ids[1] # U32Of(0, 0)
    /\ rret.setup = 0
    /\ rret.epid = U32Of(0, 0)

(***************************************************************************)
(* Endpoint specs that overlap (Spec).                                     *)
(***************************************************************************)
\* what virt_iommu_setup takes from the endpoint spec ep for dev
Chosen(dev, ep) ==
    [viommu_spec |-> ep.viommu,
     epid |-> IF dev_is_pci(dev)
              THEN WrapAdd(ep.endpoint_id, pci_dev_id(dev) - ep.devid.bdf_start)
              ELSE ep.endpoint_id]

\* the step puts the endpoint spec e at the head of before, which becomes
\* after; from then on a device of this list that e matches resolves to e,
\* and every other device resolves as it did
AddedAtHead(before, after, devs) ==
    /\ after # <<>>
    /\ Tail(after) = before
    /\ \A dev \in devs :
          IF viommu_device_match(dev, Head(after).devid)
          THEN LookupEndpoint(Reg, dev)' = Chosen(dev, Head(after))
          ELSE LookupEndpoint(Reg, dev)' = LookupEndpoint(Reg, dev)

\* C24: of the endpoint specs of its list that match a device, the resolver
\* takes the one added last: every virt_iommu_add_endpoint_spec puts its spec
\* at the head of the list of its type and the lookup stops at the first
\* match from the head, so IOMMU spec and endpoint id are those of the first
\* matching entry, whatever the specs, the fwspecs and the other lists hold.
C24_LastAddedWins ==
    /\ [][/\ pci_endpoints' # pci_endpoints =>
               AddedAtHead(pci_endpoints, pci_endpoints', {d \in Dev : dev_is_pci(d)})
          /\ mmio_endpoints' # mmio_endpoints =>
               AddedAtHead(mmio_endpoints, mmio_endpoints', {d \in Dev : dev_is_platform(d)})]_vars
    /\ [][rpc = "idle" /\ rpc' = "matched" =>
            LET list == EndpointList(Reg, rdev')
                ks == Matching(list, rdev')
                k == CHOOSE i \in ks : \A j \in ks : i <= j
            IN /\ ks # {}
               /\ rspec' = Chosen(rdev', list[k]).viommu_spec
               /\ repid' = Chosen(rdev', list[k]).epid]_vars

\* two endpoint specs with different IOMMU specs and endpoint ids match the
\* device being resolved; the lookup took the one at the head, added last
C24_Witness ==
    /\ rpc = "matched"
    /\ LET list == EndpointList(Reg, rdev)
       IN /\ Len(list) >= 2
          /\ {1, 2} \subseteq Matching(list, rdev)
          /\ list[1].viommu # list[2].viommu
          /\ Chosen(rdev, list[1]).epid # Chosen(rdev, list[2]).epid
          /\ rspec = list[1].viommu
          /\ repid = Chosen(rdev, list[1]).epid

====
